---------------------------- MODULE Spec2Model ----------------------------
(***************************************************************************)
(* A model of bin/refunds.js: the per-keep resolution pipeline             *)
(* (processKeeps / processThrough), the shared caches (startingBlock,      *)
(* delegationInfoCache, operatorBeneficiaries) and the attestation         *)
(* verifier (readBeneficiary), with every await as a scheduling point.     *)
(***************************************************************************)
EXTENDS Integers, Sequences, FiniteSets, TLC

(***************************************************************************)
(* Bounds of the model.                                                    *)
(***************************************************************************)
\* the chain head is at least 1 and grows up to MaxHead during the run
MaxHead == 2
\* at most MaxFaults external calls (chain, Bitcoin network) fail in a run
MaxFaults == 1
\* the longest attestation message (in tokens) of the extraction runs
MaxMsgLen == 3
\* the most data rows of the input table of the report runs
MaxRows == 3

(***************************************************************************)
(* The input and the environment.                                          *)
(***************************************************************************)
\* the distinct keep identifiers of the input table
Keeps == {"K1", "K2"}
\* the operators (signers) on chain
Signers == {"S1", "S2", "S3"}
\* getMembers(): ordered, three per keep; the two keeps share their signers
Members(k) == IF k = "K1" THEN <<"S1", "S2", "S3">> ELSE <<"S3", "S1", "S2">>
Slots == 1..3

\* An address is <<role, signer, case>>; "Mixed" is the checksummed spelling
\* web3 returns, "lower" the lower-cased one.
BeneficiaryAddr(s) == <<"beneficiary", s, "Mixed">>
\* the signers whose delegation has the owner as its own beneficiary
OwnerIsBeneficiary == {"S2"}
OwnerAddr(s) == IF s \in OwnerIsBeneficiary THEN BeneficiaryAddr(s) ELSE <<"owner", s, "Mixed">>
StrangerAddr(s) == <<"stranger", s, "Mixed">>
NoAddr == <<"", "", "">>
ToLowerCase(a) == <<a[1], a[2], "lower">>

(***************************************************************************)
(* Attestation messages: a message is a sequence of tokens.  A1 and A2     *)
(* match the Bitcoin-address pattern, P1 the xpub/ypub/zpub pattern, XA is *)
(* an extended key long enough to contain an address-pattern match, T is   *)
(* other text.                                                             *)
(***************************************************************************)
Tokens == {"A1", "A2", "P1", "XA", "T"}
IsAddressMatch(t) == t \in {"A1", "A2", "XA"}
IsPubMatch(t) == t \in {"P1", "XA"}
\* the text of the address-pattern match inside token t
AddressText(t) == IF t = "XA" THEN "XA-part" ELSE t
AddressMatches(msg) == [i \in 1..Len(SelectSeq(msg, IsAddressMatch)) |-> AddressText(SelectSeq(msg, IsAddressMatch)[i])]
PubMatches(msg) == SelectSeq(msg, IsPubMatch)

\* readBeneficiary, lines 374-401: <<"dest", d>> or <<"err", reason>>
ExtractDestination(msg) ==
    LET addresses == AddressMatches(msg)
        pubs == PubMatches(msg)
    IN  IF Len(addresses) > 1 THEN <<"err", "too many addresses">>
        ELSE IF Len(addresses) = 1 THEN <<"dest", addresses[1]>>
        ELSE IF Len(pubs) > 1 THEN <<"err", "too many addresses">>
        ELSE IF Len(pubs) = 1 THEN <<"dest", pubs[1]>>
        ELSE <<"err", "could not find a valid BTC address or *pub">>

(***************************************************************************)
(* Attestation files.  sig is the address whose key made the signature     *)
(* (what accounts.recover yields), address the claimed signing address.    *)
(***************************************************************************)
File(exists, msg, sig, address) ==
    [exists |-> exists, msg |-> msg, sig |-> sig, address |-> address]
NoFile == File(FALSE, <<>>, NoAddr, NoAddr)
SignedFile(msg, by) == File(TRUE, msg, by, by)
\* the contents the beneficiary file of each signer can have in a pipeline
\* run: absent, or signed by the beneficiary, and
\*   S1: signed by the owner, or by an address outside the delegation
\*   S2: with the claimed address spelled in lower case (recovery differs)
FilesOf(s) ==
    { NoFile, SignedFile(<<"T", "A1">>, BeneficiaryAddr(s)) } \cup
    ( IF s = "S1" THEN { SignedFile(<<"P1">>, OwnerAddr(s)), SignedFile(<<"A2">>, StrangerAddr(s)) }
      ELSE IF s = "S2" THEN { File(TRUE, <<"A1">>, BeneficiaryAddr(s), ToLowerCase(BeneficiaryAddr(s))) }
      ELSE {} )

Recover(msg, sig) == sig
\* line 347: a required field is missing or empty
FieldsMissing(f) == f.msg = <<>> \/ f.sig = NoAddr \/ f.address = NoAddr
\* lines 363-368: the condition under which readBeneficiary throws the
\* "was not signed by operator owner or beneficiary" error
PolicyThrows(recovered, beneficiary, owner) ==
    /\ ToLowerCase(recovered) # ToLowerCase(beneficiary)
    /\ ToLowerCase(recovered) = ToLowerCase(owner)
\* line 364-365: the left conjunct alone; when it is false deepOwnerOf is not called
DiffersFromBeneficiary(recovered, beneficiary) ==
    ToLowerCase(recovered) # ToLowerCase(beneficiary)

(***************************************************************************)
(* Rows.  A row maps field names to values; an error value is              *)
(* <<message, detail>>, detail a sequence of strings.                      *)
(***************************************************************************)
Merge(row, fields) == fields @@ row
HasError(row) == "error" \in DOMAIN row
ErrorField(msg, detail) == "error" :> <<msg, detail>>
\* processThrough, line 520
Thrown(row, e) == Merge(row, ErrorField("Error processing transaction", e))
BitcoinAddressOf(k) == <<"p2wpkh", k>>

genericStatusProcessors == <<"keySharesReady", "keepStatusCompleted", "keepHoldsBtc">>
liquidationProcessors == <<"beneficiariesAvailableAndSigned", "buildAndBroadcastLiquidationSplit">>
misfundProcessors == <<"misfund">>

\* a processThrough that invokes every processor, error or not
ShouldProcessAlways(row) == TRUE

\* processThrough, line 514: the stage is invoked only on a row without error
ShouldProcess(row) == ~HasError(row)

\* the reduce of processThrough passes a row with an error through every
\* remaining processor without invoking it
RECURSIVE SkipFrozen(_, _)
SkipFrozen(row, processors) ==
    IF processors = <<>> \/ ShouldProcess(row) THEN processors
    ELSE SkipFrozen(row, Tail(processors))

\* a branch that takes every keep with a status for a liquidation
BranchProcessorsAnyStatus(basicInfo) ==
    IF "status" \in DOMAIN basicInfo THEN liquidationProcessors ELSE <<>>

\* processKeeps, lines 529-535
BranchProcessors(basicInfo) ==
    IF "status" \in DOMAIN basicInfo /\ basicInfo["status"] = "terminated" THEN liquidationProcessors
    ELSE IF "status" \in DOMAIN basicInfo /\ basicInfo["status"] = "closed" THEN misfundProcessors
    ELSE <<>>

(***************************************************************************)
(* keySharesReady / signDigest                                             *)
(***************************************************************************)
\* what the file system and the signer process can do for one keep
ShareOutcomes == {"ok", "noDirectory", "notThreeEntries", "exitNonZero", "spawnError", "exitZeroNoTab"}
\* signDigest line 170-171: with exit code 0 and no tab in the output,
\* signature is undefined and signature.trim() throws inside the exit
\* listener, outside every promise: an uncaught exception
SignDigestCrashes(o) == o = "exitZeroNoTab"
KeySharesReadyValue(o) == o = "ok"

VARIABLES
    crashed,                \* the process died of an uncaught exception
    faults,                 \* the external calls that failed so far
    startingBlock,          \* line 208; 0 = undefined
    files,                  \* files[s]: the beneficiary file of signer s
    delegationInfoCache,    \* line 242: [s -> [beneficiary, owner]], a promise id or <<>>
    benPromise,             \* benPromise[k][i]: the promise of the beneficiaryOf query lookup (k,i) issued
    ownPromise,             \* ownPromise[k][i]: the promise of the lookupOwner query lookup (k,i) issued
    operatorBeneficiaries,  \* line 317: [s -> destination or ""]
    procs,                  \* procs[k]: the processors processThrough still has to reduce over
    phase,                  \* "generic", "branch" or "done"
    pc,                     \* pc[k]: where the stage at the head of procs[k] waits
    row,                    \* row[k]: the accumulated row
    block,                  \* block[k]: the local `block` of keepStatusCompleted; 0 = not set
    invoked,                \* invoked[k]: the processors invoked on k, in order
    lpc,                    \* lpc[k][i]: where readBeneficiary(operators[i]) of keep k waits
    lres,                   \* lres[k][i]: its settled value
    lwait,                  \* lwait[k][i]: the promise id it awaits
    allRes,                 \* allRes[k]: the Promise.all of the three lookups
    xmsg,                   \* extraction runs: the message
    xres,                   \* extraction runs: the result
    keepRows,               \* report runs: the keep column of the parsed input rows
    tasks,                  \* report runs: Array.from(keeps), line 447
    results,                \* report runs: results[i], the promise of task i
    finished,               \* report runs: the tasks in the order they settled
    report,                 \* report runs: what run() resolves with
    hang                    \* the external call that never answers, if any

vars == <<crashed, faults, startingBlock, files, delegationInfoCache, benPromise, ownPromise,
          operatorBeneficiaries, procs, phase, pc, row, block, invoked, lpc, lres, lwait,
          allRes, xmsg, xres, keepRows, tasks, results, finished, report, hang>>

taskVars == <<procs, phase, pc, row>>
cacheVars == <<delegationInfoCache, benPromise, ownPromise, operatorBeneficiaries>>
lookupVars == <<lpc, lres, lwait, allRes>>
extractVars == <<xmsg, xres>>
reportVars == <<keepRows, tasks, results, finished, report>>

NoPromise == <<>>
Pending == <<"pending">>
\* every external call answers
NoHang == <<"none">>
\* processKeeps is not called in this run
ReportIdle ==
    /\ keepRows = <<>>
    /\ tasks = <<>>
    /\ results = <<>>
    /\ finished = <<>>
    /\ report = <<"none">>

InitProgram ==
    /\ crashed = FALSE
    /\ faults = 0
    /\ startingBlock = 0
    /\ delegationInfoCache = [s \in Signers |-> [beneficiary |-> NoPromise, owner |-> NoPromise]]
    /\ benPromise = [k \in Keeps |-> [i \in Slots |-> <<"none">>]]
    /\ ownPromise = [k \in Keeps |-> [i \in Slots |-> <<"none">>]]
    /\ operatorBeneficiaries = [s \in Signers |-> ""]
    /\ procs = [k \in Keeps |-> genericStatusProcessors]
    /\ phase = [k \in Keeps |-> "generic"]
    /\ pc = [k \in Keeps |-> "call"]
    /\ row = [k \in Keeps |-> ("keep" :> k)]
    /\ block = [k \in Keeps |-> 0]
    /\ invoked = [k \in Keeps |-> <<>>]
    /\ lpc = [k \in Keeps |-> [i \in Slots |-> "idle"]]
    /\ lres = [k \in Keeps |-> [i \in Slots |-> <<"none">>]]
    /\ lwait = [k \in Keeps |-> [i \in Slots |-> NoPromise]]
    /\ allRes = [k \in Keeps |-> <<"none">>]
    /\ xres = <<"none">>

Init ==
    /\ InitProgram
    /\ files \in [Signers -> UNION {FilesOf(s) : s \in Signers}]
    /\ \A s \in Signers : files[s] \in FilesOf(s)
    /\ xmsg = <<>>
    /\ ReportIdle
    /\ hang = NoHang

\* an external call answers (TRUE) or fails (FALSE)
CallOutcomes == IF faults < MaxFaults THEN BOOLEAN ELSE {TRUE}
Fails(failed) == faults' = IF failed THEN faults + 1 ELSE faults

Running(k) == ~crashed /\ phase[k] # "done"

(***************************************************************************)
(* The event loop.  A continuation that waits for nothing outside the      *)
(* process (an await of a settled promise, the call of the next processor, *)
(* a processor that does no I/O) is a microtask: node runs every microtask *)
(* before it delivers the next answer of the outside world.                *)
(***************************************************************************)
Settled(promises, p) == promises[p[1]][p[2]] # Pending
LookupReady(k, i) ==
    \/ lpc[k][i] = "awaitBeneficiary" /\ Settled(benPromise, lwait[k][i])
    \/ lpc[k][i] = "awaitOwner" /\ Settled(ownPromise, lwait[k][i])
TaskReady(k) ==
    /\ phase[k] # "done"
    /\ \/ pc[k] = "join" /\ allRes[k] # Pending
       \/ pc[k] = "call" /\ Head(procs[k]) \in
              {"keepStatusCompleted", "buildAndBroadcastLiquidationSplit", "misfund"}
MicrotaskPending == \E k \in Keeps : TaskReady(k) \/ \E i \in Slots : LookupReady(k, i)
\* an answer of the outside world is delivered
Delivered == ~crashed /\ ~MicrotaskPending
AtCall(k, processor) == Running(k) /\ procs[k] # <<>> /\ Head(procs[k]) = processor /\ pc[k] = "call"
Invoke(k, processor) == invoked' = [invoked EXCEPT ![k] = Append(@, processor)]

\* processThrough (reduce over the remaining processors) and, once the
\* generic processors are through, the branch of processKeeps
AfterStage(k, newRow) ==
    LET rest == SkipFrozen(newRow, Tail(procs[k]))
        branch == SkipFrozen(newRow, BranchProcessors(newRow))
    IN  IF rest # <<>> THEN [procs |-> rest, phase |-> phase[k]]
        ELSE IF phase[k] = "generic" /\ branch # <<>> THEN [procs |-> branch, phase |-> "branch"]
        ELSE [procs |-> <<>>, phase |-> "done"]

\* the processor at the head of procs[k] returns newRow
Return(k, newRow) ==
    /\ row' = [row EXCEPT ![k] = newRow]
    /\ procs' = [procs EXCEPT ![k] = AfterStage(k, newRow).procs]
    /\ phase' = [phase EXCEPT ![k] = AfterStage(k, newRow).phase]
    /\ pc' = [pc EXCEPT ![k] = "call"]

(***************************************************************************)
(* The generic processors.                                                 *)
(***************************************************************************)
\* lines 452-456 with keySharesReady (190-201) and signDigest (152-185)
KeySharesStage(k) ==
    /\ AtCall(k, "keySharesReady") /\ Delivered
    /\ Invoke(k, "keySharesReady")
    /\ \E o \in ShareOutcomes :
         IF SignDigestCrashes(o)
         THEN crashed' = TRUE /\ UNCHANGED taskVars
         ELSE /\ UNCHANGED crashed
              /\ Return(k, IF KeySharesReadyValue(o) THEN row[k]
                           ELSE Merge(row[k], ErrorField("missing key shares", <<>>)))
    /\ UNCHANGED <<faults, startingBlock, files, cacheVars, block, lookupVars, extractVars, reportVars, hang>>

\* lines 457-458, 286 and 235: the processor is invoked and referenceBlock
\* reads startingBlock; when it is unset the chain head is asked for
StatusStageCall(k) ==
    /\ AtCall(k, "keepStatusCompleted")
    /\ Invoke(k, "keepStatusCompleted")
    /\ IF startingBlock # 0
       THEN /\ block' = [block EXCEPT ![k] = startingBlock]
            /\ pc' = [pc EXCEPT ![k] = "status"]
       ELSE /\ UNCHANGED block
            /\ pc' = [pc EXCEPT ![k] = "getBlockNumber"]
    /\ UNCHANGED <<crashed, faults, startingBlock, files, cacheVars, procs, phase, row,
                   lookupVars, extractVars, reportVars, hang>>

\* what getBlockNumber can answer: 0 for a failed call, else the chain head,
\* which is no lower than any head answered before (startingBlock holds the
\* latest answer)
HeadOutcomes ==
    (IF faults < MaxFaults THEN {0} ELSE {})
        \cup ((IF startingBlock = 0 THEN 1 ELSE startingBlock)..MaxHead)

\* lines 235-236: getBlockNumber answers; its value is assigned to
\* startingBlock whatever startingBlock holds by now, and returned
GetBlockNumberReturns(k) ==
    /\ Running(k) /\ pc[k] = "getBlockNumber" /\ Delivered
    /\ hang # <<"getBlockNumber", k>>
    /\ \E b \in HeadOutcomes :
         /\ IF b # 0
            THEN /\ startingBlock' = b
                 /\ block' = [block EXCEPT ![k] = b]
                 /\ pc' = [pc EXCEPT ![k] = "status"]
                 /\ UNCHANGED <<procs, phase, row>>
            ELSE /\ Return(k, Thrown(row[k], <<"getBlockNumber failed">>))
                 /\ UNCHANGED <<startingBlock, block>>
         /\ Fails(b = 0)
    /\ UNCHANGED <<crashed, files, cacheVars, invoked, lookupVars, extractVars, reportVars, hang>>

\* what isClosed and isTerminated at the reference block amount to
StatusOutcomes ==
    {"closed", "terminated", "null"} \cup (IF faults < MaxFaults THEN {"fail"} ELSE {})

\* the second generic processor told the status "null" leaves the row as
\* it is (a keep without status is no failure)
StatusRowNullPasses(r, st) ==
    IF st = "fail" THEN Thrown(r, <<"keep status call failed">>)
    ELSE IF st = "null" THEN r
    ELSE Merge(r, "status" :> st)

\* lines 457-465 (and 519-520 when a call of keepStatusCompleted throws):
\* the row the second generic processor yields
StatusRow(r, st) ==
    IF st = "fail" THEN Thrown(r, <<"keep status call failed">>)
    ELSE IF st = "null" THEN Merge(r, ErrorField("no status", <<>>))
    ELSE Merge(r, "status" :> st)

\* lines 289-295 and 460-464
StatusReturns(k) ==
    /\ Running(k) /\ pc[k] = "status" /\ Delivered
    /\ \E st \in StatusOutcomes :
         /\ Return(k, StatusRow(row[k], st))
         /\ Fails(st = "fail")
    /\ block' = [block EXCEPT ![k] = 0]
    /\ UNCHANGED <<crashed, startingBlock, files, cacheVars, invoked, lookupVars, extractVars, reportVars, hang>>

\* the balance of the keep's address; -1: the public key or the balance
\* query fails
BalanceOutcomes == {0, 5} \cup (IF faults < MaxFaults THEN {-1} ELSE {})

\* lines 466-474 with keepHoldsBtc (301-314)
BtcStage(k) ==
    /\ AtCall(k, "keepHoldsBtc") /\ Delivered
    /\ Invoke(k, "keepHoldsBtc")
    /\ \E b \in BalanceOutcomes :
         /\ Return(k, IF b = -1 THEN Thrown(row[k], <<"balance query failed">>)
                      ELSE IF b > 0
                      THEN Merge(row[k], ("bitcoinAddress" :> BitcoinAddressOf(k)) @@ ("btcBalance" :> b))
                      ELSE Merge(row[k], ErrorField("no BTC", <<>>)))
         /\ Fails(b = -1)
    /\ UNCHANGED <<crashed, startingBlock, files, cacheVars, block, lookupVars, extractVars, reportVars, hang>>

(***************************************************************************)
(* The liquidation processors: beneficiariesAvailableAndSigned with its    *)
(* three readBeneficiary lookups, and buildAndBroadcastLiquidationSplit.   *)
(***************************************************************************)
SignerOf(k, i) == Members(k)[i]

\* readBeneficiary lines 323-325: up to its first await
LookupStart(s) ==
    IF operatorBeneficiaries[s] # ""
    THEN [lpc |-> "done", lres |-> <<"dest", operatorBeneficiaries[s]>>]
    ELSE [lpc |-> "stat", lres |-> <<"none">>]

\* lines 407-412 and 477-478: the processor is invoked, getMembers answers
\* and operators.map(readBeneficiary) starts the three lookups
BeneficiariesStageCall(k) ==
    /\ AtCall(k, "beneficiariesAvailableAndSigned") /\ Delivered
    /\ Invoke(k, "beneficiariesAvailableAndSigned")
    /\ \E ok \in CallOutcomes :
         /\ IF ok
            THEN /\ lpc' = [lpc EXCEPT ![k] = [i \in Slots |-> LookupStart(SignerOf(k, i)).lpc]]
                 /\ lres' = [lres EXCEPT ![k] = [i \in Slots |-> LookupStart(SignerOf(k, i)).lres]]
                 /\ allRes' = [allRes EXCEPT ![k] =
                                 IF \A i \in Slots : LookupStart(SignerOf(k, i)).lpc = "done"
                                 THEN <<"resolved">> ELSE Pending]
                 /\ pc' = [pc EXCEPT ![k] = "join"]
                 /\ UNCHANGED <<procs, phase, row>>
            ELSE /\ Return(k, Thrown(row[k], <<"getMembers failed">>))
                 /\ UNCHANGED <<lpc, lres, allRes>>
         /\ Fails(~ok)
    /\ UNCHANGED <<crashed, startingBlock, files, cacheVars, block, lwait, extractVars, reportVars, hang>>

\* Promise.all (line 412) after lookup i of keep k settles with v: the first
\* rejection settles it, or the last fulfilment
AllAfter(k, i, v) ==
    IF allRes[k] # Pending THEN allRes[k]
    ELSE IF v[1] = "err" THEN <<"rejected", v[2]>>
    ELSE IF \A j \in Slots \ {i} : lpc[k][j] = "done" THEN <<"resolved">>
    ELSE Pending

\* lookup i of keep k settles with v: <<"null">>, <<"dest", d>> or <<"err", e>>
LookupSettles(k, i, v) ==
    /\ lres' = [lres EXCEPT ![k][i] = v]
    /\ lpc' = [lpc EXCEPT ![k][i] = "done"]
    /\ allRes' = [allRes EXCEPT ![k] = AllAfter(k, i, v)]

\* lines 374-401: the destination is extracted, cached and returned, or the
\* lookup throws
ExtractAndCache(k, i) ==
    LET s == SignerOf(k, i)
        x == ExtractDestination(files[s].msg)
    IN  IF x[1] = "dest"
        THEN /\ operatorBeneficiaries' = [operatorBeneficiaries EXCEPT ![s] = x[2]]
             /\ LookupSettles(k, i, x)
        ELSE /\ UNCHANGED operatorBeneficiaries
             /\ LookupSettles(k, i, <<"err", <<x[2], s>>>>)

\* beneficiaryOf, lines 245-250: the cached promise is returned
BeneficiaryCached(s) == delegationInfoCache[s].beneficiary # NoPromise
\* deepOwnerOf, lines 263-268
OwnerCached(s) == delegationInfoCache[s].owner # NoPromise

\* lines 334-365 and beneficiaryOf (244-260): stat and readFile answer, the
\* fields and the signature are checked, and beneficiaryOf either returns the
\* cached promise or issues the chain query and caches its promise
StatReturns(k, i) ==
    LET s == SignerOf(k, i)
        f == files[s]
    IN  /\ Delivered /\ lpc[k][i] = "stat"
        /\ IF ~f.exists
           THEN LookupSettles(k, i, <<"null">>) /\ UNCHANGED <<delegationInfoCache, benPromise, lwait>>
           ELSE IF FieldsMissing(f)
           THEN LookupSettles(k, i, <<"err", <<"invalid format", s>>>>)
                /\ UNCHANGED <<delegationInfoCache, benPromise, lwait>>
           ELSE IF Recover(f.msg, f.sig) # f.address
           THEN LookupSettles(k, i, <<"err", <<"recovered address does not match signing address", s>>>>)
                /\ UNCHANGED <<delegationInfoCache, benPromise, lwait>>
           ELSE IF BeneficiaryCached(s)
           THEN /\ lwait' = [lwait EXCEPT ![k][i] = delegationInfoCache[s].beneficiary]
                /\ lpc' = [lpc EXCEPT ![k][i] = "awaitBeneficiary"]
                /\ UNCHANGED <<delegationInfoCache, benPromise, lres, allRes>>
           ELSE /\ benPromise' = [benPromise EXCEPT ![k][i] = Pending]
                /\ delegationInfoCache' = [delegationInfoCache EXCEPT ![s].beneficiary = <<k, i>>]
                /\ lwait' = [lwait EXCEPT ![k][i] = <<k, i>>]
                /\ lpc' = [lpc EXCEPT ![k][i] = "awaitBeneficiary"]
                /\ UNCHANGED <<lres, allRes>>
        /\ UNCHANGED <<crashed, faults, startingBlock, files, ownPromise, operatorBeneficiaries,
                       taskVars, block, invoked, extractVars, reportVars, hang>>

\* how an awaited promise is found settled: as it was settled before, or,
\* when still pending, fulfilled or (a failed call) rejected
PromiseOutcomes(promise) ==
    IF promise # Pending THEN {promise[1]}
    ELSE {"fulfilled"} \cup (IF faults < MaxFaults THEN {"rejected"} ELSE {})

\* lines 363-367 and deepOwnerOf lines 263-272: the awaited beneficiary
\* promise is settled; when the recovered address differs from the
\* beneficiary, deepOwnerOf is called: it returns the cached owner promise or
\* awaits contractsFromWeb3
BeneficiaryResumes(k, i) ==
    LET s == SignerOf(k, i)
        p == lwait[k][i]
        recovered == Recover(files[s].msg, files[s].sig)
    IN  /\ ~crashed /\ lpc[k][i] = "awaitBeneficiary"
        /\ LookupReady(k, i) \/ Delivered
        /\ ~(benPromise[p[1]][p[2]] = Pending /\ hang = <<"beneficiaryOf", p[1], p[2]>>)
        /\ \E o \in PromiseOutcomes(benPromise[p[1]][p[2]]) :
             /\ benPromise' = [benPromise EXCEPT ![p[1]][p[2]] = <<o>>]
             /\ Fails(benPromise[p[1]][p[2]] = Pending /\ o = "rejected")
             /\ IF o = "rejected"
                THEN /\ LookupSettles(k, i, <<"err", <<"beneficiaryOf call failed", s>>>>)
                     /\ UNCHANGED <<lwait, operatorBeneficiaries>>
                ELSE IF ~DiffersFromBeneficiary(recovered, BeneficiaryAddr(s))
                THEN ExtractAndCache(k, i) /\ UNCHANGED lwait
                ELSE IF OwnerCached(s)
                THEN /\ lwait' = [lwait EXCEPT ![k][i] = delegationInfoCache[s].owner]
                     /\ lpc' = [lpc EXCEPT ![k][i] = "awaitOwner"]
                     /\ UNCHANGED <<lres, allRes, operatorBeneficiaries>>
                ELSE /\ lpc' = [lpc EXCEPT ![k][i] = "contractsFromWeb3"]
                     /\ UNCHANGED <<lres, allRes, lwait, operatorBeneficiaries>>
        /\ UNCHANGED <<crashed, startingBlock, files, delegationInfoCache, ownPromise,
                       taskVars, block, invoked, extractVars, reportVars, hang>>

\* deepOwnerOf lines 270-279: contractsFromWeb3 answers; lookupOwner is
\* issued and its promise stored in the cache
ContractsReturns(k, i) ==
    LET s == SignerOf(k, i)
    IN  /\ Delivered /\ lpc[k][i] = "contractsFromWeb3"
        /\ \E ok \in CallOutcomes :
             /\ IF ok
                THEN /\ ownPromise' = [ownPromise EXCEPT ![k][i] = Pending]
                     /\ delegationInfoCache' = [delegationInfoCache EXCEPT ![s].owner = <<k, i>>]
                     /\ lwait' = [lwait EXCEPT ![k][i] = <<k, i>>]
                     /\ lpc' = [lpc EXCEPT ![k][i] = "awaitOwner"]
                     /\ UNCHANGED <<lres, allRes>>
                ELSE /\ LookupSettles(k, i, <<"err", <<"contractsFromWeb3 failed", s>>>>)
                     /\ UNCHANGED <<ownPromise, delegationInfoCache, lwait>>
             /\ Fails(~ok)
        /\ UNCHANGED <<crashed, startingBlock, files, benPromise, operatorBeneficiaries,
                       taskVars, block, invoked, extractVars, reportVars, hang>>

\* lines 366-372: the awaited owner promise is settled and the policy decides
OwnerResumes(k, i) ==
    LET s == SignerOf(k, i)
        p == lwait[k][i]
        recovered == Recover(files[s].msg, files[s].sig)
    IN  /\ ~crashed /\ lpc[k][i] = "awaitOwner"
        /\ LookupReady(k, i) \/ Delivered
        /\ \E o \in PromiseOutcomes(ownPromise[p[1]][p[2]]) :
             /\ ownPromise' = [ownPromise EXCEPT ![p[1]][p[2]] = <<o>>]
             /\ Fails(ownPromise[p[1]][p[2]] = Pending /\ o = "rejected")
             /\ IF o = "rejected"
                THEN /\ LookupSettles(k, i, <<"err", <<"lookupOwner failed", s>>>>)
                     /\ UNCHANGED operatorBeneficiaries
                ELSE IF PolicyThrows(recovered, BeneficiaryAddr(s), OwnerAddr(s))
                THEN /\ LookupSettles(k, i, <<"err", <<"was not signed by operator owner or beneficiary", s>>>>)
                     /\ UNCHANGED operatorBeneficiaries
                ELSE ExtractAndCache(k, i)
        /\ UNCHANGED <<crashed, startingBlock, files, delegationInfoCache, benPromise,
                       lwait, taskVars, block, invoked, extractVars, reportVars, hang>>

\* a search that stops at the first operator whose lookup gave null
UnavailableFirstOnly(k, i) ==
    LET missing == {j \in i..3 : lres[k][j] = <<"null">>}
    IN  IF missing = {} THEN <<>>
        ELSE <<Members(k)[CHOOSE j \in missing : \A m \in missing : j <= m]>>

\* lines 413-421: the operators whose lookup gave null, in membership order
RECURSIVE Unavailable(_, _)
Unavailable(k, i) ==
    IF i > 3 THEN <<>>
    ELSE IF lres[k][i] = <<"null">> THEN <<SignerOf(k, i)>> \o Unavailable(k, i + 1)
    ELSE Unavailable(k, i + 1)

\* lines 412-436: what beneficiariesAvailableAndSigned returns once the
\* Promise.all is settled
BeneficiariesResult(k) ==
    IF allRes[k][1] = "rejected" THEN ErrorField("beneficiary lookup failed", allRes[k][2])
    ELSE IF Len(Unavailable(k, 1)) > 0
    THEN ErrorField("not all beneficiaries are available", Unavailable(k, 1))
    ELSE ("beneficiary1" :> lres[k][1][2]) @@ ("beneficiary2" :> lres[k][2][2])
         @@ ("beneficiary3" :> lres[k][3][2])

\* lines 478-481
BeneficiariesStageReturns(k) ==
    /\ Running(k) /\ pc[k] = "join"
    /\ allRes[k] # Pending
    /\ Return(k, Merge(row[k], BeneficiariesResult(k)))
    /\ UNCHANGED <<crashed, faults, startingBlock, files, cacheVars, block, invoked,
                   lookupVars, extractVars, reportVars, hang>>

\* lines 439-441: the empty object
buildAndBroadcastLiquidationSplit(keepData) == <<>>

\* lines 489-493: an object is truthy, so the row is returned with the
\* object's fields merged in
SplitStage(k) ==
    /\ AtCall(k, "buildAndBroadcastLiquidationSplit")
    /\ Invoke(k, "buildAndBroadcastLiquidationSplit")
    /\ Return(k, Merge(row[k], buildAndBroadcastLiquidationSplit(row[k])))
    /\ UNCHANGED <<crashed, faults, startingBlock, files, cacheVars, block, lookupVars, extractVars, reportVars, hang>>

\* line 503: the one misfund processor returns its row
MisfundStage(k) ==
    /\ AtCall(k, "misfund")
    /\ Invoke(k, "misfund")
    /\ Return(k, row[k])
    /\ UNCHANGED <<crashed, faults, startingBlock, files, cacheVars, block, lookupVars, extractVars, reportVars, hang>>

Next ==
    \/ \E k \in Keeps : KeySharesStage(k)
    \/ \E k \in Keeps : StatusStageCall(k)
    \/ \E k \in Keeps : GetBlockNumberReturns(k)
    \/ \E k \in Keeps : StatusReturns(k)
    \/ \E k \in Keeps : BtcStage(k)
    \/ \E k \in Keeps : BeneficiariesStageCall(k)
    \/ \E k \in Keeps, i \in Slots : StatReturns(k, i)
    \/ \E k \in Keeps, i \in Slots : BeneficiaryResumes(k, i)
    \/ \E k \in Keeps, i \in Slots : ContractsReturns(k, i)
    \/ \E k \in Keeps, i \in Slots : OwnerResumes(k, i)
    \/ \E k \in Keeps : BeneficiariesStageReturns(k)
    \/ \E k \in Keeps : SplitStage(k)
    \/ \E k \in Keeps : MisfundStage(k)

Spec == Init /\ [][Next]_vars

(***************************************************************************)
(* Runs under fair scheduling.  Node's event loop runs every continuation  *)
(* that is ready and delivers every answer that arrives, so a step that    *)
(* stays possible is taken; the one call named by hang never answers.  The *)
(* files are all there: S1's attestation is signed by its owner or by its  *)
(* beneficiary, the others by their beneficiary.                           *)
(***************************************************************************)
Hangs == {NoHang, <<"getBlockNumber", "K1">>, <<"beneficiaryOf", "K1", 1>>}
LiveFiles ==
    { [s \in Signers |-> IF s = "S1" THEN SignedFile(<<"P1">>, by)
                         ELSE SignedFile(<<"T", "A1">>, BeneficiaryAddr(s))] :
      by \in {OwnerAddr("S1"), BeneficiaryAddr("S1")} }

InitLive ==
    /\ InitProgram
    /\ files \in LiveFiles
    /\ xmsg = <<>>
    /\ ReportIdle
    /\ hang \in Hangs

SpecLive == InitLive /\ [][Next]_vars /\ WF_vars(Next)

(***************************************************************************)
(* Extraction runs: ExtractDestination applied to every message of at most *)
(* MaxMsgLen tokens.                                                       *)
(***************************************************************************)
Messages == UNION {[1..n -> Tokens] : n \in 0..MaxMsgLen}

InitExtract ==
    /\ InitProgram
    /\ files = [s \in Signers |-> NoFile]
    /\ xmsg \in Messages
    /\ ReportIdle
    /\ hang = NoHang

Extract ==
    /\ xres = <<"none">>
    /\ xres' = ExtractDestination(xmsg)
    /\ UNCHANGED <<crashed, faults, startingBlock, files, cacheVars, taskVars, block, invoked,
                   lookupVars, xmsg, reportVars, hang>>

SpecExtract == InitExtract /\ [][Extract]_vars

(***************************************************************************)
(* Report runs: processKeeps over an input table with blank and repeated   *)
(* keep cells, its tasks settling in any order, and run() rendering the    *)
(* rows.  A text is a sequence of tokens; the token "," is the comma.      *)
(* An object is a sequence of <<field, text>> in insertion order.          *)
(***************************************************************************)
KeepCells == Keeps \cup {""}
Inputs == UNION {[1..n -> KeepCells] : n \in 0..MaxRows}

\* line 445: the rows with a keep
HasKeep(cell) == cell # ""

\* a set that takes every added value as new
SetAddAlways(set, value) == Append(set, value)

\* Set.prototype.add (lines 446 and 550): insertion order, a value once
SetAdd(set, value) ==
    IF \E n \in DOMAIN set : set[n] = value THEN set ELSE Append(set, value)

\* Array.from(new Set(values)), lines 446-447 and 550
RECURSIVE ArrayFromSet(_)
ArrayFromSet(values) ==
    IF values = <<>> THEN <<>>
    ELSE SetAdd(ArrayFromSet(SubSeq(values, 1, Len(values) - 1)), values[Len(values)])

\* lines 444-446
DistinctKeeps(rows) == ArrayFromSet(SelectSeq(rows, HasKeep))

\* Array.prototype.join(","), lines 425 and 556: undefined and the empty
\* text give nothing between the commas
RECURSIVE JoinComma(_)
JoinComma(texts) ==
    IF texts = <<>> THEN <<>>
    ELSE IF Len(texts) = 1 THEN texts[1]
    ELSE texts[1] \o <<",">> \o JoinComma(Tail(texts))

\* the template literals of lines 425 and the fixed reasons
ErrorText(e) ==
    IF e[2] = <<>> THEN <<e[1]>>
    ELSE <<e[1], " (missing ">> \o JoinComma([n \in DOMAIN e[2] |-> <<e[2][n]>>]) \o <<")">>

\* String(value) of a field's value
ValueText(field, value) ==
    IF field = "error" THEN ErrorText(value)
    ELSE IF field = "btcBalance" THEN <<ToString(value)>>
    ELSE IF field = "bitcoinAddress" THEN <<value[1], value[2]>>
    ELSE <<value>>

\* the order in which the processors add the fields to a row: keep (527),
\* status (461), bitcoinAddress and btcBalance (470), then the beneficiaries
\* (481) or, at whatever stage, the error, after which nothing is added
FieldOrder == <<"keep", "status", "bitcoinAddress", "btcBalance",
                "beneficiary1", "beneficiary2", "beneficiary3", "error">>
InRow(r) == [n \in DOMAIN FieldOrder |-> FieldOrder[n] \in DOMAIN r]
RECURSIVE ObjectFrom(_, _)
ObjectFrom(r, n) ==
    IF n > Len(FieldOrder) THEN <<>>
    ELSE (IF InRow(r)[n] THEN <<<<FieldOrder[n], ValueText(FieldOrder[n], r[FieldOrder[n]])>>>> ELSE <<>>)
         \o ObjectFrom(r, n + 1)
\* the row r as the object run() gets
Object(r) == ObjectFrom(r, 1)

\* terminal rows of keep k, as the processors leave them
WithBtc(k, st) ==
    ("keep" :> k) @@ ("status" :> st) @@ ("bitcoinAddress" :> BitcoinAddressOf(k)) @@ ("btcBalance" :> 5)
ReportRows(k) ==
    { Merge("keep" :> k, ErrorField("missing key shares", <<>>)),
      WithBtc(k, "closed"),
      Merge(WithBtc(k, "terminated"), ErrorField("not all beneficiaries are available", <<"S1", "S2">>)),
      Merge(WithBtc(k, "terminated"),
            ("beneficiary1" :> "A1") @@ ("beneficiary2" :> "A2") @@ ("beneficiary3" :> "A1")) }

\* Object.keys, line 550
ObjectKeys(o) == [n \in DOMAIN o |-> o[n][1]]
\* row[key], line 552: the text, or undefined (joined as nothing)
Get(o, key) ==
    IF \E n \in DOMAIN o : o[n][1] = key
    THEN o[CHOOSE n \in DOMAIN o : o[n][1] = key][2]
    ELSE <<>>
\* keepRows.flatMap(Object.keys), line 550
RECURSIVE FlatMapKeys(_)
FlatMapKeys(rows) ==
    IF rows = <<>> THEN <<>> ELSE ObjectKeys(Head(rows)) \o FlatMapKeys(Tail(rows))
allKeys(rows) == ArrayFromSet(FlatMapKeys(rows))
arrayRows(rows) ==
    [i \in DOMAIN rows |-> [j \in DOMAIN allKeys(rows) |-> Get(rows[i], allKeys(rows)[j])]]
\* lines 553-557: the lines of the text, the header first
Lines(rows) ==
    <<JoinComma([j \in DOMAIN allKeys(rows) |-> <<allKeys(rows)[j]>>])>>
        \o [i \in DOMAIN rows |-> JoinComma(arrayRows(rows)[i])]

InitReport ==
    /\ InitProgram
    /\ files = [s \in Signers |-> NoFile]
    /\ xmsg = <<>>
    /\ hang = NoHang
    /\ keepRows \in Inputs
    /\ tasks = <<>>
    /\ results = <<>>
    /\ finished = <<>>
    /\ report = <<"none">>

pipelineVars == <<crashed, faults, startingBlock, files, cacheVars, taskVars, block, invoked,
                  lookupVars, extractVars, hang>>

\* lines 443-447 and 538: one task per distinct keep, each with its promise
ProcessKeepsCall ==
    /\ report = <<"none">>
    /\ tasks' = DistinctKeeps(keepRows)
    /\ results' = [i \in DOMAIN DistinctKeeps(keepRows) |-> <<>>]
    /\ report' = <<"running">>
    /\ UNCHANGED <<pipelineVars, keepRows, finished>>

\* line 447-536: the task of tasks[i] returns its terminal row
TaskSettles(i) ==
    /\ report = <<"running">>
    /\ results[i] = <<>>
    /\ \E r \in ReportRows(tasks[i]) : results' = [results EXCEPT ![i] = Object(r)]
    /\ finished' = Append(finished, i)
    /\ UNCHANGED <<pipelineVars, keepRows, tasks, report>>

\* lines 538 and 549-558: Promise.all resolves with the rows in the order of
\* the tasks, and run() renders them
ReportResolves ==
    /\ report = <<"running">>
    /\ \A i \in DOMAIN results : results[i] # <<>>
    /\ report' = <<"csv", Lines(results)>>
    /\ UNCHANGED <<pipelineVars, keepRows, tasks, results, finished>>

NextReport ==
    \/ ProcessKeepsCall
    \/ \E i \in DOMAIN results : TaskSettles(i)
    \/ ReportResolves

SpecReport == InitReport /\ [][NextReport]_vars

(***************************************************************************)
(* Observations used by the properties.                                    *)
(***************************************************************************)
Lookups == Keeps \X Slots
\* the chain queries beneficiaryOf issued for signer s (lines 252-254)
BeneficiaryQueries(s) ==
    Cardinality({l \in Lookups : SignerOf(l[1], l[2]) = s /\ benPromise[l[1]][l[2]] # <<"none">>})
\* the owner lookups deepOwnerOf issued for signer s (lines 270-274)
OwnerQueries(s) ==
    Cardinality({l \in Lookups : SignerOf(l[1], l[2]) = s /\ ownPromise[l[1]][l[2]] # <<"none">>})
InvokedSet(k) == {invoked[k][n] : n \in DOMAIN invoked[k]}
Terminal(k) == phase[k] = "done"
Field(k, f) == f \in DOMAIN row[k]
RecoveredOf(s) == ToLowerCase(Recover(files[s].msg, files[s].sig))
\* the attestation of s is present, recovers to its claimed address and is
\* signed by the beneficiary or the owner of s
PolicyConforming(s) ==
    /\ files[s].exists /\ ~FieldsMissing(files[s])
    /\ Recover(files[s].msg, files[s].sig) = files[s].address
    /\ RecoveredOf(s) \in {ToLowerCase(BeneficiaryAddr(s)), ToLowerCase(OwnerAddr(s))}
\* ... and it is the beneficiary that signed it
SignedByBeneficiary(s) ==
    PolicyConforming(s) /\ RecoveredOf(s) = ToLowerCase(BeneficiaryAddr(s))
MatchCount(msg) == Len(AddressMatches(msg)) + Len(PubMatches(msg))
BranchStages == {"beneficiariesAvailableAndSigned", "buildAndBroadcastLiquidationSplit", "misfund"}
LiquidationStages == {"beneficiariesAvailableAndSigned", "buildAndBroadcastLiquidationSplit"}
\* the fields a row gets from the generic processors, the beneficiary
\* lookup and processThrough
KnownFields == {"keep", "status", "bitcoinAddress", "btcBalance", "error",
                "beneficiary1", "beneficiary2", "beneficiary3"}

(***************************************************************************)
(* C1  Once a keep's row carries an error field, no later stage is invoked *)
(* on it and the row never changes again (the branch stages dispatched     *)
(* after the generic ones included).                                       *)
(***************************************************************************)
C1_ErrorFreezesRow ==
    [][\A k \in Keeps : HasError(row[k]) => row'[k] = row[k] /\ invoked'[k] = invoked[k]]_vars

\* a keep got its status, failed in keepHoldsBtc and went through the branch
\* dispatch with the error in its row
C1_Witness ==
    \E k \in Keeps :
        /\ Terminal(k) /\ HasError(row[k])
        /\ Field(k, "status") /\ row[k]["status"] = "terminated"
        /\ invoked[k] = genericStatusProcessors

(***************************************************************************)
(* C2  readBeneficiary never returns or caches a destination for an        *)
(* attestation whose recovered signing address is neither the signer's     *)
(* beneficiary address nor its deep owner address.                         *)
(***************************************************************************)
C2_StrangerNeverAccepted ==
    \A k \in Keeps, i \in Slots :
        LET s == SignerOf(k, i)
        IN  (lres[k][i][1] = "dest" \/ operatorBeneficiaries[s] # "")
                => RecoveredOf(s) \in {ToLowerCase(BeneficiaryAddr(s)), ToLowerCase(OwnerAddr(s))}

(***************************************************************************)
(* C3  With a address-pattern matches and p extended-key matches in the    *)
(* message, a destination is returned only when a + p = 1; otherwise the   *)
(* extraction raises an error.                                             *)
(***************************************************************************)
C3_DestinationOnlyForOneMatch ==
    xres # <<"none">> => (xres[1] = "dest" <=> MatchCount(xmsg) = 1)

(***************************************************************************)
(* C4  For every signer, beneficiaryOf issues at most one chain query and  *)
(* deepOwnerOf at most one owner lookup in a run, whatever the             *)
(* interleaving of the keep tasks and of their signer lookups.             *)
(***************************************************************************)
C4_OneQueryPerSigner ==
    \A s \in Signers : BeneficiaryQueries(s) <= 1 /\ OwnerQueries(s) <= 1

(***************************************************************************)
(* C5  Every call of referenceBlock in a run returns the same block: once  *)
(* a reference block is established, a later call returns that block.      *)
(***************************************************************************)
C5_OneReferenceBlock ==
    [][\A k \in Keeps :
          (block[k] = 0 /\ block'[k] # 0 /\ startingBlock # 0) => block'[k] = startingBlock]_vars

(***************************************************************************)
(* C6  No fault inside a stage of one keep's task ends the batch: the      *)
(* process goes on, and every keep's task ends with one row for its keep,  *)
(* the fault being an error field of the row of the keep it occurred in.   *)
(***************************************************************************)
C6_FaultsStayInTheRow ==
    /\ ~crashed
    /\ \A k \in Keeps : Terminal(k) => Field(k, "keep") /\ row[k]["keep"] = k
    /\ (faults > 0 /\ \A k \in Keeps : Terminal(k)) => \E k \in Keeps : HasError(row[k])

(***************************************************************************)
(* C7  (as claimed) When the status of a keep with ready key material      *)
(* resolves to null, the pipeline stops after the generic stages in a      *)
(* terminal row without an error field.                                    *)
(***************************************************************************)
\* keepStatusCompleted returns null to keep k in this step: the stage
\* returns, no call failed and the row gets no status
StatusNullStep(k) ==
    /\ pc[k] = "status" /\ pc'[k] # "status"
    /\ faults' = faults
    /\ ~Field(k, "status") /\ "status" \notin DOMAIN row'[k]

C7_NullStatusEndsWithoutError ==
    [][\A k \in Keeps : StatusNullStep(k) => phase'[k] = "done" /\ ~HasError(row'[k])]_vars

(***************************************************************************)
(* C7  (amended) When the status of a keep with ready key material         *)
(* resolves to null, the pipeline stops at the status stage: the terminal  *)
(* row carries the error "no status", and neither keepHoldsBtc nor a       *)
(* branch stage is invoked.                                                *)
(***************************************************************************)
C7_NullStatusEndsWithNoStatusError ==
    [][\A k \in Keeps :
          StatusNullStep(k) =>
              /\ phase'[k] = "done"
              /\ row'[k] = Merge(row[k], ErrorField("no status", <<>>))
              /\ invoked'[k] = <<"keySharesReady", "keepStatusCompleted">>]_vars

C7_Witness ==
    \E k \in Keeps :
        /\ Terminal(k) /\ HasError(row[k]) /\ row[k]["error"] = <<"no status", <<>>>>
        /\ invoked[k] = <<"keySharesReady", "keepStatusCompleted">>

(***************************************************************************)
(* C8  Branch stages run only after the three generic stages succeeded and *)
(* only for the matching status: a liquidation stage is invoked for a keep *)
(* iff its row has status terminated, a positive balance and no error; a   *)
(* closed keep with balance 0 ends with "no BTC" and no branch stage; a    *)
(* row with beneficiary fields has status terminated and a positive        *)
(* balance.                                                                *)
(***************************************************************************)
HoldsBtc(k) == Field(k, "btcBalance") /\ row[k]["btcBalance"] > 0
HasStatus(k, st) == Field(k, "status") /\ row[k]["status"] = st

C8_BranchOnlyForMatchingStatus ==
    \A k \in Keeps :
        \* only after the generic stages, only for the matching status
        /\ InvokedSet(k) \cap BranchStages # {} =>
              /\ SubSeq(invoked[k], 1, 3) = genericStatusProcessors
              /\ HoldsBtc(k)
        /\ InvokedSet(k) \cap LiquidationStages # {} => HasStatus(k, "terminated")
        /\ "misfund" \in InvokedSet(k) => HasStatus(k, "closed")
        \* a stage is running or about to run: the row has no error
        /\ (phase[k] = "branch" => ~HasError(row[k]))
        /\ ("buildAndBroadcastLiquidationSplit" \in InvokedSet(k) => ~HasError(row[k]))
        \* a terminated keep holding BTC does not end without the liquidation stages
        /\ (Terminal(k) /\ HasStatus(k, "terminated") /\ HoldsBtc(k)) =>
              /\ "beneficiariesAvailableAndSigned" \in InvokedSet(k)
              /\ (~HasError(row[k]) => "buildAndBroadcastLiquidationSplit" \in InvokedSet(k))
        \* closed, balance 0
        /\ (Terminal(k) /\ HasStatus(k, "closed") /\ ~Field(k, "btcBalance")) =>
              /\ HasError(row[k])
              /\ invoked[k] = genericStatusProcessors
        /\ (HasError(row[k]) /\ row[k]["error"] = <<"no BTC", <<>>>>) =>
              invoked[k] = genericStatusProcessors
        /\ (Field(k, "beneficiary1") \/ Field(k, "beneficiary2") \/ Field(k, "beneficiary3")) =>
              HasStatus(k, "terminated") /\ HoldsBtc(k)

\* one keep ended closed with "no BTC", the other with its beneficiaries
C8_Witness ==
    \E k, j \in Keeps :
        /\ Terminal(k) /\ HasStatus(k, "closed") /\ HasError(row[k])
        /\ row[k]["error"] = <<"no BTC", <<>>>>
        /\ Terminal(j) /\ Field(j, "beneficiary3")

(***************************************************************************)
(* C9  A keep with key shares ready, status terminated, a positive balance *)
(* and three present, validly signed, policy-conforming attestations with  *)
(* one destination each ends (no call failing) in a row without error,     *)
(* with beneficiary1/2/3 in membership order and a non-empty transaction   *)
(* result field.  Stated for the attestations the beneficiary address     *)
(* itself signed, the plainest of the policy-conforming ones.              *)
(***************************************************************************)
C9_LiquidationYieldsTransaction ==
    \A k \in Keeps :
        ( /\ Terminal(k) /\ faults = 0
          /\ HasStatus(k, "terminated") /\ HoldsBtc(k)
          /\ \A i \in Slots : /\ SignedByBeneficiary(SignerOf(k, i))
                              /\ MatchCount(files[SignerOf(k, i)].msg) = 1 )
        => /\ ~HasError(row[k])
           /\ Field(k, "beneficiary1") /\ Field(k, "beneficiary2") /\ Field(k, "beneficiary3")
           /\ \A i \in Slots :
                 <<"dest", row[k][<<"beneficiary1", "beneficiary2", "beneficiary3">>[i]]>>
                     = ExtractDestination(files[SignerOf(k, i)].msg)
           /\ DOMAIN row[k] \ KnownFields # {}

(***************************************************************************)
(* C10  For a terminated keep holding BTC whose three signer lookups all   *)
(* settled without a hard error, and at least one signer without an        *)
(* attestation file, the terminal row's error is the aggregate "not all    *)
(* beneficiaries are available" error, names exactly the signers whose     *)
(* file is missing, and the row has no beneficiary field.                  *)
(***************************************************************************)
MissingSigners(k) == {SignerOf(k, i) : i \in {j \in Slots : ~files[SignerOf(k, j)].exists}}
LookupsSettledWithoutError(k) ==
    \A i \in Slots : lpc[k][i] = "done" /\ lres[k][i][1] # "err"
Range(seq) == {seq[n] : n \in DOMAIN seq}

C10_ErrorNamesExactlyTheMissing ==
    \A k \in Keeps :
        ( /\ Terminal(k) /\ HasStatus(k, "terminated") /\ HoldsBtc(k)
          /\ LookupsSettledWithoutError(k)
          /\ MissingSigners(k) # {} )
        => /\ HasError(row[k])
           /\ row[k]["error"][1] = "not all beneficiaries are available"
           /\ Range(row[k]["error"][2]) = MissingSigners(k)
           /\ Len(row[k]["error"][2]) = Cardinality(MissingSigners(k))
           /\ DOMAIN row[k] \cap {"beneficiary1", "beneficiary2", "beneficiary3"} = {}

\* two of the three signers have no file, the third a valid one
C10_Witness ==
    \E k \in Keeps :
        /\ Terminal(k) /\ HasStatus(k, "terminated") /\ HoldsBtc(k)
        /\ LookupsSettledWithoutError(k)
        /\ Cardinality(MissingSigners(k)) = 2
        /\ HasError(row[k])

(***************************************************************************)
(* C11  Repeated keep identifiers collapse to one task: one task is        *)
(* started per distinct keep identifier of the input, and the rows the     *)
(* batch resolves with are one per distinct identifier, in the order of    *)
(* first occurrence in the input, whatever the order the tasks settled in. *)
(***************************************************************************)
FirstIndex(seq, x) == CHOOSE n \in DOMAIN seq : seq[n] = x /\ \A m \in 1..(n - 1) : seq[m] # x
InFirstSeenOrder(out, in) ==
    /\ Range(out) = Range(in)
    /\ \A a, b \in DOMAIN out :
          a < b => FirstIndex(in, out[a]) < FirstIndex(in, out[b])

C11_OneTaskPerDistinctKeep ==
    report # <<"none">> =>
        /\ InFirstSeenOrder(tasks, SelectSeq(keepRows, HasKeep))
        /\ DOMAIN results = DOMAIN tasks
        /\ \A i \in DOMAIN results :
              results[i] # <<>> => Get(results[i], "keep") = <<tasks[i]>>
        /\ report[1] = "csv" => Len(report[2]) = 1 + Cardinality(Range(keepRows) \ {""})

\* an input that repeats a keep, the task of the second keep settled first
C11_Witness ==
    /\ report[1] = "csv"
    /\ Len(SelectSeq(keepRows, HasKeep)) > Len(tasks)
    /\ finished = <<2, 1>>

(***************************************************************************)
(* C12  The header of the report is the union of the field names of the    *)
(* terminal rows, each once, in first-seen order; and every data row of    *)
(* the report has one cell per header column, holding the row's value for  *)
(* that field, or nothing when the row has no such field.                  *)
(***************************************************************************)
HasComma(text) == \E n \in DOMAIN text : text[n] = ","
\* the cells of a line of the report
RECURSIVE Cells(_)
Cells(line) ==
    IF ~HasComma(line) THEN <<line>>
    ELSE LET n == CHOOSE c \in DOMAIN line : line[c] = "," /\ \A m \in 1..(c - 1) : line[m] # ","
         IN  <<SubSeq(line, 1, n - 1)>> \o Cells(SubSeq(line, n + 1, Len(line)))

C12_UniformTable ==
    (report[1] = "csv" /\ results # <<>>) =>
        LET header == Cells(report[2][1])
        IN  /\ \A a, b \in DOMAIN header : a # b => header[a] # header[b]
            /\ InFirstSeenOrder([j \in DOMAIN header |-> header[j][1]], FlatMapKeys(results))
            /\ \A i \in DOMAIN results :
                  LET cells == Cells(report[2][i + 1])
                  IN  /\ Len(cells) = Len(header)
                      /\ \A j \in DOMAIN cells : cells[j] = Get(results[i], header[j][1])

(***************************************************************************)
(* C13  The terminal rows are a function of the chain snapshot and the     *)
(* files alone, whatever the interleaving of the three signer lookups.     *)
(* Were it so, every schedule would yield the row of the schedule in which *)
(* the lookups settle in membership order: with no call failing, the error *)
(* of a keep whose lookups fail is that of its first failing lookup in     *)
(* membership order.                                                       *)
(***************************************************************************)
FailingSlots(k) == {i \in Slots : lres[k][i][1] = "err"}
FirstFailing(k) == CHOOSE i \in FailingSlots(k) : \A j \in FailingSlots(k) : i <= j

C13_RowsIndependentOfInterleaving ==
    \A k \in Keeps :
        ( /\ Terminal(k) /\ faults = 0
          /\ \A i \in Slots : lpc[k][i] = "done"
          /\ FailingSlots(k) # {} )
        => row[k]["error"] = <<"beneficiary lookup failed", lres[k][FirstFailing(k)][2]>>

(***************************************************************************)
(* C14  A closed keep that holds BTC ends in a row without error only      *)
(* after its refund destination was resolved and verified and a refund     *)
(* transaction result obtained: such a row carries more than the fields of *)
(* the generic stages.                                                     *)
(***************************************************************************)
C14_ClosedKeepNeedsRefund ==
    \A k \in Keeps :
        (Terminal(k) /\ HasStatus(k, "closed") /\ HoldsBtc(k) /\ ~HasError(row[k]))
            => DOMAIN row[k] \ {"keep", "status", "bitcoinAddress", "btcBalance"} # {}

(***************************************************************************)
(* C15  The generic stages of a keep run in the order keySharesReady,      *)
(* keepStatusCompleted, keepHoldsBtc; the query of a stage is out only     *)
(* while the earlier stages have returned without error; and a terminal    *)
(* "missing key shares", "no status" or "no BTC" is the reason of the      *)
(* last stage invoked, the first one that failed.                          *)
(***************************************************************************)
ErrorIs(k, reason) == HasError(row[k]) /\ row[k]["error"] = <<reason, <<>>>>
GenericOrder == <<"keySharesReady", "keepStatusCompleted", "keepHoldsBtc">>

WellFormed(s) ==
    /\ files[s].exists /\ ~FieldsMissing(files[s])
    /\ Recover(files[s].msg, files[s].sig) = files[s].address
    /\ MatchCount(files[s].msg) = 1
Authorized(s) ==
    \/ RecoveredOf(s) = ToLowerCase(BeneficiaryAddr(s))
    \/ /\ RecoveredOf(s) = ToLowerCase(OwnerAddr(s))
       /\ ToLowerCase(OwnerAddr(s)) # ToLowerCase(BeneficiaryAddr(s))

C16_OwnerSignedAccepted ==
    \A k \in Keeps, i \in Slots :
        (lpc[k][i] = "done" /\ faults = 0 /\ WellFormed(SignerOf(k, i)))
            => (lres[k][i][1] = "dest" <=> Authorized(SignerOf(k, i)))

(***************************************************************************)
(* C17  A failed query of beneficiaryOf or deepOwnerOf is never kept in    *)
(* the cache: no cache field of a signer holds a rejected promise, so the  *)
(* failure of one lookup is not replayed to a later caller.                *)
(***************************************************************************)
CachedPromise(promises, p) == promises[p[1]][p[2]]

C17_FailuresNotCached ==
    \A s \in Signers :
        /\ BeneficiaryCached(s) =>
              CachedPromise(benPromise, delegationInfoCache[s].beneficiary) # <<"rejected">>
        /\ OwnerCached(s) =>
              CachedPromise(ownPromise, delegationInfoCache[s].owner) # <<"rejected">>

(***************************************************************************)
(* C18  A delegation cache field of a signer, once populated, is never     *)
(* overwritten for the rest of the run.                                    *)
(***************************************************************************)
C18_CacheEntryNeverOverwritten ==
    [][\A s \in Signers :
          /\ BeneficiaryCached(s) =>
                delegationInfoCache'[s].beneficiary = delegationInfoCache[s].beneficiary
          /\ OwnerCached(s) =>
                delegationInfoCache'[s].owner = delegationInfoCache[s].owner]_vars

(***************************************************************************)
(* C19  keySharesReady always settles with a boolean: every step that      *)
(* invokes the first generic stage leaves the process running and the      *)
(* keep's row either unchanged (true) or with "missing key shares"         *)
(* (false).                                                                *)
(***************************************************************************)
C19_KeySharesReadySettles ==
    [][\A k \in Keeps :
          (invoked[k] = <<>> /\ invoked'[k] = <<"keySharesReady">>) =>
              /\ ~crashed'
              /\ \/ row'[k] = row[k]
                 \/ row'[k] = Merge(row[k], ErrorField("missing key shares", <<>>))]_vars

(***************************************************************************)
(* C20  Keep tasks never block each other: under fair scheduling, when an  *)
(* external call issued by one keep's task never returns, every other      *)
(* keep's task still reaches its terminal row (also with a shared signer), *)
(* and when every call returns or fails every keep reaches its terminal    *)
(* row.  Stated for the runs in which the process does not crash.          *)
(***************************************************************************)
HangsIn(k) == hang # NoHang /\ hang[2] = k

C20_KeepsNeverBlockEachOther ==
    /\ \A k, j \in Keeps :
          (k # j /\ HangsIn(k)) => <>(crashed \/ Terminal(j))
    /\ hang = NoHang => <>(crashed \/ \A k \in Keeps : Terminal(k))

(***************************************************************************)
(* C21  operatorBeneficiaries only ever holds, for a signer, the           *)
(* destination extracted from an attestation that passed the               *)
(* required-fields check, the signature recovery and the authorization     *)
(* check (signed by the signer's beneficiary or owner); a lookup that ends *)
(* in null or in an error caches nothing, so that a later lookup reads and *)
(* verifies the file again; and a lookup that finds a cached destination   *)
(* returns it without a file read or a chain query.                        *)
(***************************************************************************)
PassedChecks(s) ==
    /\ files[s].exists
    /\ ~FieldsMissing(files[s])
    /\ Recover(files[s].msg, files[s].sig) = files[s].address
    /\ RecoveredOf(s) \in {ToLowerCase(BeneficiaryAddr(s)), ToLowerCase(OwnerAddr(s))}
CacheHoldsVerified ==
    \A s \in Signers :
        operatorBeneficiaries[s] # "" =>
            /\ PassedChecks(s)
            /\ ExtractDestination(files[s].msg) = <<"dest", operatorBeneficiaries[s]>>
LookupStarts(k, i) == lpc[k][i] = "idle" /\ lpc'[k][i] # "idle"
LookupFails(k, i) == lres'[k][i] # lres[k][i] /\ lres'[k][i][1] \in {"null", "err"}

C21_CacheHoldsOnlyVerifiedDestinations ==
    [][/\ CacheHoldsVerified'
       /\ \A k \in Keeps, i \in Slots :
             LET s == SignerOf(k, i)
             IN  /\ LookupFails(k, i) => operatorBeneficiaries'[s] = operatorBeneficiaries[s]
                 /\ (LookupStarts(k, i) /\ operatorBeneficiaries[s] = "") => lpc'[k][i] = "stat"
                 /\ (LookupStarts(k, i) /\ operatorBeneficiaries[s] # "") =>
                       /\ lpc'[k][i] = "done"
                       /\ lres'[k][i] = <<"dest", operatorBeneficiaries[s]>>
                       /\ benPromise'[k][i] = <<"none">>
                       /\ ownPromise'[k][i] = <<"none">>]_vars

=============================================================================
